---- MODULE Spec2Model ----
(***************************************************************************)
(* A model of rem-extract's edit applicator, symbol renamer and repair     *)
(* fixups (src/rem-extract/src/extraction_utils.rs).                       *)
(*                                                                         *)
(* A file's text is a sequence of one-character strings; offsets are the   *)
(* 0-based byte offsets Rust's str methods use (all text here is ASCII).   *)
(***************************************************************************)
EXTENDS Integers, Sequences, FiniteSets, TLC

VARIABLES
    fs,                 \* path -> text of the file, or NoFile
    input_path,         \* the source file's path
    output_path,        \* the output file's path
    callee_name,        \* the caller-supplied function name
    text_edit,          \* the assist's TextEdit: a sequence of indels
    maybe_snippet_edit, \* the assist's SnippetEdit, or None
    pc,                 \* where the caller stands
    trace,              \* the operations run so far, oldest first
    faults,             \* IO failures injected so far
    src0,               \* the source file's text before the run
    runs,               \* the requests running in parallel threads, if any
    walk                \* get_manifest_dir's argument, tree and current_dir

vars == <<fs, input_path, output_path, callee_name, text_edit,
          maybe_snippet_edit, pc, trace, faults, src0, runs, walk>>

(***************************************************************************)
(* Bounds of the model.                                                    *)
(***************************************************************************)
MaxChunks == 3
MaxRuns == 2
MaxIoFaults == 1
MaxSrcChunks == 3
MaxRenameChunks == 3
MaxAssists == 3
MaxParChunks == 1
MaxLine == 10
MaxColumn == 10
MaxDepth == 3

(***************************************************************************)
(* Strings of the program.                                                 *)
(***************************************************************************)
controlflow_ref == <<"C","o","n","t","r","o","l","F","l","o","w",":",":">>

controlflow_import ==
    <<"u","s","e"," ","s","t","d",":",":","o","p","s",":",":",
      "C","o","n","t","r","o","l","F","l","o","w",";","\n","\n">>

blank_type == <<" ","-",">"," ","_"," ">>

blank_type_removed == 5

blank_type_replacement == <<" ">>

double_semicolon == <<";",";">>

single_semicolon == <<";">>

double_space == <<")"," "," ">>

single_space == <<")"," ">>

\* What fs holds for a path with no file
NoFile == <<"<no file>">>

\* An absent Option value (no source change, no snippet edit)
None == <<[none |-> TRUE]>>

(***************************************************************************)
(* str methods.                                                            *)
(***************************************************************************)
\* pat occurs in text at offset i
MatchesAt(text, pat, i) ==
    /\ i >= 0
    /\ i + Len(pat) <= Len(text)
    /\ \A k \in 1..Len(pat) : text[i + k] = pat[k]

\* str::find from offset `from`: the offset of the first match, or -1
FindFrom(text, pat, from) ==
    LET hits == {i \in from..(Len(text) - Len(pat)) : MatchesAt(text, pat, i)}
    IN  IF hits = {} THEN -1
        ELSE CHOOSE i \in hits : \A j \in hits : i <= j

\* str::find
Find(text, pat) == FindFrom(text, pat, 0)

\* str::contains
Contains(text, pat) == Find(text, pat) # -1

\* text[from..]
SliceFrom(text, from) == SubSeq(text, from + 1, Len(text))

\* text[..to]
SliceTo(text, to) == SubSeq(text, 1, to)

\* str::match_indices for a non-empty pattern: the offsets of the matches,
\* leftmost first, none overlapping an earlier one.
RECURSIVE MatchesFrom(_, _, _)
MatchesFrom(text, pat, from) ==
    LET i == FindFrom(text, pat, from)
    IN  IF i = -1 THEN <<>>
        ELSE <<i>> \o MatchesFrom(text, pat, i + Len(pat))

\* str::match_indices; the empty pattern matches at every offset 0..len
match_indices(text, pat) ==
    IF pat = <<>> THEN [k \in 1..(Len(text) + 1) |-> k - 1]
    ELSE MatchesFrom(text, pat, 0)

\* str::replace for a non-empty pattern
RECURSIVE ReplaceFrom(_, _, _, _)
ReplaceFrom(text, pat, to, from) ==
    LET i == FindFrom(text, pat, from)
    IN  IF i = -1 THEN SliceFrom(text, from)
        ELSE SubSeq(text, from + 1, i) \o to
             \o ReplaceFrom(text, pat, to, i + Len(pat))

replace(text, pat, to) == ReplaceFrom(text, pat, to, 0)

\* String::replace_range(start..end, with)
replace_range(text, start, end, with) ==
    SliceTo(text, start) \o with \o SliceFrom(text, end)

(***************************************************************************)
(* The edits of the assist (ra_ap_ide's TextEdit and SnippetEdit).         *)
(***************************************************************************)
\* Indel::apply: the range start..end is replaced by insert
Indel(start, end, insert) == [start |-> start, end |-> end, insert |-> insert]

indel_apply(text, indel) ==
    replace_range(text, indel.start, indel.end, indel.insert)

\* TextEdit::apply: the indels, sorted and disjoint, with offsets into the
\* text before the edit, are applied from the last to the first.
RECURSIVE text_edit_apply(_, _)
text_edit_apply(text, indels) ==
    IF indels = <<>> THEN text
    ELSE text_edit_apply(indel_apply(text, indels[Len(indels)]),
                         SubSeq(indels, 1, Len(indels) - 1))

\* SnippetEdit::apply: from the last range to the first, an empty range
\* gets the tab stop `$0`, another one is wrapped as the placeholder
\* `${0:...}`.
RECURSIVE snippet_edit_apply(_, _)
snippet_edit_apply(text, ranges) ==
    IF ranges = <<>> THEN text
    ELSE LET r == ranges[Len(ranges)]
             marked ==
                 IF r.start = r.end
                 THEN replace_range(text, r.start, r.start, <<"$", "0">>)
                 ELSE replace_range(
                          replace_range(text, r.end, r.end, <<"}">>),
                          r.start, r.start, <<"$", "{", "0", ":">>)
         IN  snippet_edit_apply(marked, SubSeq(ranges, 1, Len(ranges) - 1))

\* An apply_edits that applies the snippet edit to the text before the edit.
EditedText_SnippetFirst(text, edit, snippet) ==
    text_edit_apply(
        IF snippet = None THEN text ELSE snippet_edit_apply(text, snippet),
        edit)

\* apply_edits on the text read: the text edit, then the snippet edit on
\* the edited text.
EditedText(text, edit, snippet) ==
    LET edited == text_edit_apply(text, edit)
    IN  IF snippet = None THEN edited
        ELSE snippet_edit_apply(edited, snippet)

\* The engine's name for the function it synthesises
fun_name == <<"f", "u", "n", "_", "n", "a", "m", "e">>

\* A rename_function that replaces only the first occurrence.
RenamedText_FirstOnly(text, old_name, new_name) ==
    LET i == Find(text, old_name)
    IN  IF i = -1 THEN text
        ELSE replace_range(text, i, i + Len(old_name), new_name)

\* rename_function on the text read
RenamedText(text, old_name, new_name) == replace(text, old_name, new_name)

(***************************************************************************)
(* The four repair fixups as functions of the file's text: what each       *)
(* decides after reading the file.  kind is "write" (the text is written   *)
(* back), "keep" (Ok without a write) or "err" (Err without a write).      *)
(***************************************************************************)
\* A fixup_controlflow that appends the import instead of prepending it.
ControlflowOutcome_Appends(text) ==
    IF Contains(text, controlflow_ref)
    THEN [kind |-> "write", text |-> text \o controlflow_import]
    ELSE [kind |-> "keep", text |-> text]

ControlflowOutcome(text) ==
    IF Contains(text, controlflow_ref)
    THEN [kind |-> "write", text |-> controlflow_import \o text]
    ELSE [kind |-> "keep", text |-> text]

\* A fixup_blanktype whose occurrence check is off by one: it accepts a
\* single occurrence of callee_name and searches from the last one.
BlanktypeOutcome_OneOccurrence(text, callee) ==
    LET occurrences == match_indices(text, callee)
    IN  IF Len(occurrences) < 1
        THEN [kind |-> "err", text |-> text]
        ELSE LET second_occurrence_pos ==
                     occurrences[IF Len(occurrences) < 2 THEN 1 ELSE 2]
                 index == Find(SliceFrom(text, second_occurrence_pos),
                               blank_type)
                 replacement_start == second_occurrence_pos + index
             IN  IF index # -1
                 THEN [kind |-> "write",
                       text |-> replace_range(text, replacement_start,
                                    replacement_start + blank_type_removed,
                                    blank_type_replacement)]
                 ELSE [kind |-> "keep", text |-> text]

BlanktypeOutcome(text, callee) ==
    LET occurrences == match_indices(text, callee)
    IN  IF Len(occurrences) < 2
        THEN [kind |-> "err", text |-> text]
        ELSE LET second_occurrence_pos == occurrences[2]
                 index == Find(SliceFrom(text, second_occurrence_pos),
                               blank_type)
                 replacement_start == second_occurrence_pos + index
             IN  IF index # -1
                 THEN [kind |-> "write",
                       text |-> replace_range(text, replacement_start,
                                    replacement_start + blank_type_removed,
                                    blank_type_replacement)]
                 ELSE [kind |-> "keep", text |-> text]

\* A fixup_double_semicolon that replaces the first `;;` only.
DoubleSemicolonOutcome_FirstOnly(text) ==
    LET i == Find(text, double_semicolon)
    IN  IF i # -1
        THEN [kind |-> "write",
              text |-> replace_range(text, i, i + Len(double_semicolon),
                                     single_semicolon)]
        ELSE [kind |-> "keep", text |-> text]

DoubleSemicolonOutcome(text) ==
    IF Contains(text, double_semicolon)
    THEN [kind |-> "write",
          text |-> replace(text, double_semicolon, single_semicolon)]
    ELSE [kind |-> "keep", text |-> text]

\* A fixup_doublespace that replaces the first `)  ` only.
DoublespaceOutcome_FirstOnly(text) ==
    LET i == Find(text, double_space)
    IN  IF i # -1
        THEN [kind |-> "write",
              text |-> replace_range(text, i, i + Len(double_space),
                                     single_space)]
        ELSE [kind |-> "keep", text |-> text]

DoublespaceOutcome(text) ==
    IF Contains(text, double_space)
    THEN [kind |-> "write", text |-> replace(text, double_space, single_space)]
    ELSE [kind |-> "keep", text |-> text]

(***************************************************************************)
(* The file system.  fs::write creates or truncates the file and then      *)
(* writes the text: when it fails the file is as it was (it could not be   *)
(* opened) or empty (it was truncated and nothing was written).            *)
(***************************************************************************)
Paths == {"in", "out"}

WriteOutcomes(old, new) ==
    {[ok |-> TRUE, content |-> new]}
    \cup (IF faults < MaxIoFaults
          THEN {[ok |-> FALSE, content |-> old],
                [ok |-> FALSE, content |-> <<>>]}
          ELSE {})

\* What the model records of one call: the operation, what it returned, the
\* output file before and after it, and whether an IO call of it failed.
Entry(op, res, before, after, io) ==
    [op |-> op, res |-> res, before |-> before, after |-> after, io |-> io]

(***************************************************************************)
(* The order the caller runs the fixups in after apply_extract_function.   *)
(***************************************************************************)
RefOrder ==
    <<"fixup_controlflow", "fixup_blanktype",
      "fixup_double_semicolon", "fixup_doublespace">>

\* pc = "fixups": any fixup may be run next; pc = "each_once": any fixup
\* that has not run yet; pc = "repair": the caller's pipeline runs them once
\* each in the reference order.
IsFixupCall(e) == e.op \in {RefOrder[k] : k \in 1..Len(RefOrder)}

FixupCalls == SelectSeq(trace, IsFixupCall)

CanRun(op) ==
    \/ pc = "fixups" /\ Len(FixupCalls) < MaxRuns
    \/ pc = "each_once" /\ \A i \in 1..Len(trace) : trace[i].op # op
    \/ /\ pc = "repair"
       /\ Len(FixupCalls) < Len(RefOrder)
       /\ RefOrder[Len(FixupCalls) + 1] = op

\* One fixup call: read_to_string(..).unwrap(), the decision `out`, and
\* fs::write when the decision is to write; `err` is the Err it returns
\* when the write fails.
RunFixup(op, out, err) ==
    /\ CanRun(op)
    /\ LET old == fs[output_path]
       IN  IF old = NoFile
           THEN /\ pc' = "panicked"
                /\ trace' = Append(trace, Entry(op, "panic", old, old, TRUE))
                /\ UNCHANGED <<fs, faults>>
           ELSE /\ pc' = pc
                /\ IF out.kind = "write"
                   THEN \E w \in WriteOutcomes(old, out.text) :
                          /\ fs' = [fs EXCEPT ![output_path] = w.content]
                          /\ faults' = IF w.ok THEN faults ELSE faults + 1
                          /\ trace' = Append(trace,
                                 Entry(op, IF w.ok THEN "Ok" ELSE err,
                                       old, w.content, ~w.ok))
                   ELSE /\ trace' = Append(trace,
                                 Entry(op,
                                       IF out.kind = "err" THEN err ELSE "Ok",
                                       old, old, FALSE))
                        /\ UNCHANGED <<fs, faults>>
    /\ UNCHANGED <<input_path, output_path, callee_name, text_edit,
                   maybe_snippet_edit, src0, runs, walk>>

fixup_controlflow ==
    RunFixup("fixup_controlflow", ControlflowOutcome(fs[output_path]),
             "ControlFlowFixupFailed")

fixup_blanktype ==
    RunFixup("fixup_blanktype",
             BlanktypeOutcome(fs[output_path], callee_name),
             "BlankTypeFixupFailed")

fixup_double_semicolon ==
    RunFixup("fixup_double_semicolon",
             DoubleSemicolonOutcome(fs[output_path]),
             "ControlFlowFixupFailed")

fixup_doublespace ==
    RunFixup("fixup_doublespace", DoublespaceOutcome(fs[output_path]),
             "ControlFlowFixupFailed")

Fixups ==
    \/ fixup_controlflow
    \/ fixup_blanktype
    \/ fixup_double_semicolon
    \/ fixup_doublespace

(***************************************************************************)
(* apply_extract_function: the copy, the edits and the rename.  Each       *)
(* unwrap() of a failed call panics, which ends the run.                   *)
(***************************************************************************)
\* What std::fs::copy(from, to) leaves in `to`.  A missing source fails
\* before `to` is opened; copying a file onto itself is likely to truncate
\* it; a failed copy leaves `to` as it was or truncated.
CopyOutcomes(from, to) ==
    IF from = NoFile THEN {[ok |-> FALSE, content |-> to]}
    ELSE IF input_path = output_path
         THEN {[ok |-> TRUE, content |-> <<>>], [ok |-> TRUE, content |-> from]}
         ELSE {[ok |-> TRUE, content |-> from]}
              \cup (IF faults < MaxIoFaults
                    THEN {[ok |-> FALSE, content |-> to],
                          [ok |-> FALSE, content |-> <<>>]}
                    ELSE {})

copy_file_vfs ==
    /\ pc = "copy"
    /\ \E c \in CopyOutcomes(fs[input_path], fs[output_path]) :
          /\ fs' = [fs EXCEPT ![output_path] = c.content]
          /\ pc' = IF c.ok THEN "apply_edits" ELSE "panicked"
          /\ faults' = IF c.ok \/ fs[input_path] = NoFile
                       THEN faults ELSE faults + 1
          /\ trace' = Append(trace,
                 Entry("copy_file_vfs", IF c.ok THEN "Ok" ELSE "panic",
                       fs[output_path], c.content, ~c.ok))
    /\ UNCHANGED <<input_path, output_path, callee_name, text_edit,
                   maybe_snippet_edit, src0, runs, walk>>

\* One read-modify-write stage on the output file: read_to_string(path)
\* .unwrap(), the new text, fs::write(path, text).unwrap().  `fits` is
\* false when computing the new text panics.
RunStage(path, op, next, fits, new) ==
    /\ LET old == fs[path]
       IN  IF old = NoFile \/ ~fits
           THEN /\ pc' = "panicked"
                /\ trace' = Append(trace, Entry(op, "panic", old, old, TRUE))
                /\ UNCHANGED <<fs, faults>>
           ELSE \E w \in WriteOutcomes(old, new) :
                  /\ fs' = [fs EXCEPT ![path] = w.content]
                  /\ pc' = IF w.ok THEN next ELSE "panicked"
                  /\ faults' = IF w.ok THEN faults ELSE faults + 1
                  /\ trace' = Append(trace,
                         Entry(op, IF w.ok THEN "Ok" ELSE "panic",
                               old, w.content, ~w.ok))
    /\ UNCHANGED <<input_path, output_path, callee_name, text_edit,
                   maybe_snippet_edit, src0, runs, walk>>

\* Every range of the edits lies in the text it is applied to (a
\* replace_range or insert past the end panics).
EditsFit(text, edit, snippet) ==
    /\ edit # None
    /\ text # NoFile
    /\ \A k \in 1..Len(edit) : edit[k].end <= Len(text)
    /\ snippet # None =>
          \A k \in 1..Len(snippet) :
              snippet[k].end <= Len(text_edit_apply(text, edit))

\* An apply_extract_function that hands apply_edits the input path.
EditsPath_Input == input_path

\* The path apply_extract_function hands to apply_edits
EditsPath == output_path

apply_edits ==
    /\ pc = "apply_edits"
    /\ RunStage(EditsPath, "apply_edits", "rename",
                EditsFit(fs[EditsPath], text_edit, maybe_snippet_edit),
                EditedText(fs[EditsPath], text_edit, maybe_snippet_edit))

rename_function ==
    /\ pc = "rename"
    /\ RunStage(output_path, "rename_function", "repair", TRUE,
                RenamedText(fs[output_path], fun_name, callee_name))

apply_extract_function ==
    \/ copy_file_vfs
    \/ apply_edits
    \/ rename_function

(***************************************************************************)
(* Texts built from a few fragments.                                       *)
(***************************************************************************)
RECURSIVE Concat(_)
Concat(ss) == IF ss = <<>> THEN <<>> ELSE Head(ss) \o Concat(Tail(ss))

SeqsUpTo(S, n) == UNION {[1..k -> S] : k \in 0..n}

TextsOf(chunks, n) == {Concat(ss) : ss \in SeqsUpTo(chunks, n)}

(***************************************************************************)
(* SpecFixup: the fixups run, in any order, on an output file holding any  *)
(* text made of the fragments one of the fixups looks for, and on the test *)
(* inputs.                                                                 *)
(***************************************************************************)
\* The test inputs of the fixups
extracted ==
    <<"e", "x", "t", "r", "a", "c", "t", "e", "d">>

TestImport ==
    <<"C", "o", "n", "t", "r", "o", "l", "F", "l", "o", "w", ":",
      ":", "C", "o", "n", "t", "i", "n", "u", "e", "(", "(", ")",
      ")">>

TestTerminator ==
    <<"l", "e", "t", " ", "x", " ", "=", " ", "1", ";", ";", " ",
      "l", "e", "t", " ", "y", " ", "=", " ", "2", ";">>

TestSpacing ==
    <<"f", "o", "o", "(", "a", ",", " ", "b", ")", " ", " ", "b",
      "a", "r", "(", ")">>

\* Two occurrences of `extracted`, the second followed by `-> _ {`: the call
\* and the header the engine writes, and the bare names
TestReturnType ==
    <<"e", "x", "t", "r", "a", "c", "t", "e", "d", "(", ")", ";",
      " ", "f", "n", " ", "e", "x", "t", "r", "a", "c", "t", "e",
      "d", "(", ")", " ", "-", ">", " ", "_", " ", "{", "}">>

TestReturnTypeBare ==
    <<"e", "x", "t", "r", "a", "c", "t", "e", "d", " ", "e", "x",
      "t", "r", "a", "c", "t", "e", "d", " ", "-", ">", " ", "_",
      " ", "{", "}">>

TestInputs ==
    {TestImport, TestTerminator, TestSpacing, TestReturnType,
     TestReturnTypeBare}

\* Uses of ControlFlow, imports of it, and other text
ImportChunks == {controlflow_ref, controlflow_import, <<"x">>}

\* The callee's name, alone and at the end of a line, a header with the
\* marker, markers, braces and lines
BlanktypeChunks ==
    {<<"f">>, <<"f", "\n">>, <<"f", "(", ")">> \o blank_type, blank_type,
     <<"{">>, <<"\n">>}

\* Terminators and other text
SemicolonChunks == {<<";">>, double_semicolon, <<"x">>}

\* Closing parentheses and runs of spaces
DoublespaceChunks == {<<")">>, double_space, <<" ">>}

FixupTexts ==
    UNION {TextsOf(chunks, MaxChunks) :
              chunks \in {ImportChunks, BlanktypeChunks, SemicolonChunks,
                          DoublespaceChunks}}
    \cup TestInputs

FixupCallees == {<<"f">>, <<"f", "f">>}

InitFixup ==
    /\ input_path = "in"
    /\ output_path = "out"
    /\ src0 = <<>>
    /\ \E t \in FixupTexts :
          fs = [p \in Paths |-> IF p = "out" THEN t ELSE src0]
    /\ callee_name \in FixupCallees
    /\ text_edit = <<>>
    /\ maybe_snippet_edit = None
    /\ pc = "fixups"
    /\ trace = <<>>
    /\ faults = 0
    /\ runs = <<>>
    /\ walk = <<>>

SpecFixup == InitFixup /\ [][Fixups]_vars

(***************************************************************************)
(* SpecRename: rename_function on an output file holding any text made of  *)
(* pieces of the placeholder, for callee names of several shapes.          *)
(***************************************************************************)
RenameChunks ==
    {fun_name, SliceTo(fun_name, Len(fun_name) - 1), <<"(">>, <<" ">>, <<"x">>}

RenameCallees ==
    {<<"h">>, <<"e">>, <<>>, fun_name, fun_name \o <<"2">>, <<"h", "(">>}

InitRename ==
    /\ input_path = "in"
    /\ output_path = "out"
    /\ src0 = <<>>
    /\ \E t \in TextsOf(RenameChunks, MaxRenameChunks) :
          fs = [p \in Paths |-> IF p = "out" THEN t ELSE src0]
    /\ callee_name \in RenameCallees
    /\ text_edit = <<>>
    /\ maybe_snippet_edit = None
    /\ pc = "rename"
    /\ trace = <<>>
    /\ faults = 0
    /\ runs = <<>>
    /\ walk = <<>>

SpecRename == InitRename /\ [][rename_function]_vars

(***************************************************************************)
(* Spec: one run of apply_extract_function on a source file, with the      *)
(* engine's rewrite (the span replaced by a call of fun_name, the new      *)
(* function inserted after it), then the fixups in the reference order.    *)
(***************************************************************************)
SrcChunks ==
    {<<"a", ";">>, <<"h", ";">>,
     <<"|", "|", " ", "-", ">", " ", "_", " ", "{", "}", ";">>}

PipelineCallees == {<<"h">>, <<"g">>}

Call == fun_name \o <<"(", ")">>

DefBlank == <<"f", "n", " ">> \o fun_name \o <<"(", ")">> \o blank_type \o <<"{", "}">>

DefPlain == <<"f", "n", " ">> \o fun_name \o <<"(", ")", " ", "{", "}">>

\* The offset at which fragment b + 1 of cs starts
Off(cs, b) == Len(Concat(SubSeq(cs, 1, b)))

\* The rewrites of the engine for the text made of the fragments cs: the
\* span of some fragments is replaced by the call, and the definition is
\* inserted at a fragment boundary after the span.
Rewrites(cs) ==
    {<<Indel(Off(cs, bs), Off(cs, be), Call), Indel(Off(cs, bp), Off(cs, bp), def)>> :
        <<bs, be, bp, def>> \in
            {x \in (0..Len(cs)) \X (0..Len(cs)) \X (0..Len(cs)) \X {DefBlank, DefPlain} :
                x[1] < x[2] /\ x[2] <= x[3]}}

\* The snippet edits that may come with a rewrite: none, or a tab stop
\* before the call.
Snippets(edit) ==
    {None} \cup (IF edit = None \/ edit = <<>> THEN {}
                 ELSE {<<[start |-> edit[1].start, end |-> edit[1].start]>>})

Init ==
    /\ input_path = "in"
    /\ output_path \in Paths
    /\ callee_name \in PipelineCallees
    /\ \E cs \in SeqsUpTo(SrcChunks, MaxSrcChunks) :
          /\ src0 \in {Concat(cs)} \cup (IF cs = <<>> THEN {NoFile} ELSE {})
          /\ text_edit \in Rewrites(cs) \cup {<<>>, None}
    /\ maybe_snippet_edit \in Snippets(text_edit)
    /\ fs = [p \in Paths |-> IF p = "in" THEN src0 ELSE NoFile]
    /\ pc = "copy"
    /\ trace = <<>>
    /\ faults = 0
    /\ runs = <<>>
    /\ walk = <<>>

Next == apply_extract_function \/ Fixups

Spec == Init /\ [][Next]_vars

(***************************************************************************)
(* SpecSelect: the assist selector on any list of assists the engine may   *)
(* return.  An assist is known here by its label and its source change.    *)
(***************************************************************************)
extract_function_label == "Extract into function"

EngineLabels == {extract_function_label, "Extract into variable"}

EngineAssists == [label : EngineLabels, source_change : {"edit1", "edit2"}]

\* assists.iter().find(|assist| assist.label == label): the position of the
\* first match, or 0 for Option::None
FindLabel(assists, label) ==
    LET hits == {k \in 1..Len(assists) : assists[k].label = label}
    IN  IF hits = {} THEN 0 ELSE CHOOSE k \in hits : \A j \in hits : k <= j

\* One call of a selector on the list `assists`: `none` is what it does when
\* find returns None.
RunSelect(op, assists, none) ==
    /\ pc = "select"
    /\ LET k == FindLabel(assists, extract_function_label)
       IN  /\ trace' = Append(trace,
                  IF k = 0 THEN Entry(op, none, assists, <<>>, FALSE)
                  ELSE Entry(op, "Ok", assists, <<assists[k]>>, FALSE))
           /\ pc' = IF k = 0 /\ none = "panic" THEN "panicked" ELSE "selected"
    /\ UNCHANGED <<fs, input_path, output_path, callee_name, text_edit,
                   maybe_snippet_edit, faults, src0, runs, walk>>

\* extraction_utils.rs: Err(ExtractionError::NoExtractFunction(assists))
filter_extract_function_assist ==
    \E assists \in SeqsUpTo(EngineAssists, MaxAssists) :
        RunSelect("filter_extract_function_assist", assists,
                  "NoExtractFunction")

\* utils.rs: find(..).unwrap()
utils_filter_extract_function_assist ==
    \E assists \in SeqsUpTo(EngineAssists, MaxAssists) :
        RunSelect("utils::filter_extract_function_assist", assists, "panic")

InitSelect ==
    /\ input_path = "in"
    /\ output_path = "out"
    /\ src0 = NoFile
    /\ fs = [p \in Paths |-> NoFile]
    /\ callee_name = <<>>
    /\ text_edit = None
    /\ maybe_snippet_edit = None
    /\ pc = "select"
    /\ trace = <<>>
    /\ faults = 0
    /\ runs = <<>>
    /\ walk = <<>>

NextSelect ==
    \/ filter_extract_function_assist
    \/ utils_filter_extract_function_assist

SpecSelect == InitSelect /\ [][NextSelect]_vars

(***************************************************************************)
(* SpecCommute: the four fixups run once each, in any order, on the test   *)
(* inputs of the repair pipeline.                                          *)
(***************************************************************************)
InitCommute ==
    /\ input_path = "in"
    /\ output_path = "out"
    /\ src0 = <<>>
    /\ \E t \in TestInputs :
          fs = [p \in Paths |-> IF p = "out" THEN t ELSE src0]
    /\ callee_name = extracted
    /\ text_edit = <<>>
    /\ maybe_snippet_edit = None
    /\ pc = "each_once"
    /\ trace = <<>>
    /\ faults = 0
    /\ runs = <<>>
    /\ walk = <<>>

SpecCommute == InitCommute /\ [][Fixups]_vars

(***************************************************************************)
(* SpecParallel: two requests run apply_extract_function in parallel       *)
(* threads on the same source file and the same assist.  A step is one     *)
(* file operation of one thread: the copy, a read_to_string or a write;    *)
(* runs[r].text is the String the thread holds between its read and its    *)
(* write.  A panic ends its own thread only.                               *)
(***************************************************************************)
Runs == {1, 2}

ParPaths == {"in", "out", "out2"}

\* An apply_extract_function in which every thread works on the first
\* request's output path.
RunPath_Shared(r) == runs[1].output_path

\* The output path thread r hands to copy_file_vfs, apply_edits and
\* rename_function
RunPath(r) == runs[r].output_path

At(r, pos) == runs[r].pc = pos

Goto(r, pos, text) ==
    runs' = [runs EXCEPT ![r].pc = pos, ![r].text = text]

ParUnchanged ==
    UNCHANGED <<input_path, output_path, callee_name, text_edit,
                maybe_snippet_edit, pc, trace, src0, walk>>

par_copy_file_vfs(r) ==
    /\ At(r, "copy")
    /\ \E c \in CopyOutcomes(fs[input_path], fs[RunPath(r)]) :
          /\ fs' = [fs EXCEPT ![RunPath(r)] = c.content]
          /\ faults' = IF c.ok \/ fs[input_path] = NoFile
                       THEN faults ELSE faults + 1
          /\ Goto(r, IF c.ok THEN "apply_edits" ELSE "panicked", <<>>)
    /\ ParUnchanged

\* source_change.unwrap(), then apply_edits' read_to_string(..).unwrap()
par_apply_edits_read(r) ==
    /\ At(r, "apply_edits")
    /\ IF text_edit = None \/ fs[RunPath(r)] = NoFile
       THEN Goto(r, "panicked", <<>>)
       ELSE Goto(r, "apply_edits_write", fs[RunPath(r)])
    /\ UNCHANGED <<fs, faults>>
    /\ ParUnchanged

\* One fs::write(path, new).unwrap() of thread r
ParWrite(r, fits, new, next) ==
    /\ IF ~fits
       THEN /\ Goto(r, "panicked", <<>>)
            /\ UNCHANGED <<fs, faults>>
       ELSE \E w \in WriteOutcomes(fs[RunPath(r)], new) :
              /\ fs' = [fs EXCEPT ![RunPath(r)] = w.content]
              /\ faults' = IF w.ok THEN faults ELSE faults + 1
              /\ Goto(r, IF w.ok THEN next ELSE "panicked", <<>>)
    /\ ParUnchanged

\* text_edit.apply, snippet_edit.apply and apply_edits' fs::write
par_apply_edits_write(r) ==
    /\ At(r, "apply_edits_write")
    /\ ParWrite(r, EditsFit(runs[r].text, text_edit, maybe_snippet_edit),
                EditedText(runs[r].text, text_edit, maybe_snippet_edit),
                "rename")

par_rename_function_read(r) ==
    /\ At(r, "rename")
    /\ IF fs[RunPath(r)] = NoFile
       THEN Goto(r, "panicked", <<>>)
       ELSE Goto(r, "rename_write", fs[RunPath(r)])
    /\ UNCHANGED <<fs, faults>>
    /\ ParUnchanged

par_rename_function_write(r) ==
    /\ At(r, "rename_write")
    /\ ParWrite(r, TRUE,
                RenamedText(runs[r].text, fun_name, runs[r].callee_name),
                "done")

InitParallel ==
    /\ input_path = "in"
    /\ output_path = "out"
    /\ callee_name = <<"h">>
    /\ \E cs \in SeqsUpTo(SrcChunks, MaxParChunks) :
          /\ src0 \in {Concat(cs)} \cup (IF cs = <<>> THEN {NoFile} ELSE {})
          /\ text_edit \in Rewrites(cs) \cup {<<>>, None}
    /\ maybe_snippet_edit \in Snippets(text_edit)
    /\ fs = [p \in ParPaths |-> IF p = "in" THEN src0 ELSE NoFile]
    /\ \E second \in {"out", "out2"} :
          runs = <<[pc |-> "copy", output_path |-> "out",
                    callee_name |-> <<"h">>, text |-> <<>>],
                   [pc |-> "copy", output_path |-> second,
                    callee_name |-> <<"g">>, text |-> <<>>]>>
    /\ pc = "parallel"
    /\ trace = <<>>
    /\ faults = 0
    /\ walk = <<>>

NextParallel ==
    \E r \in Runs :
        \/ par_copy_file_vfs(r)
        \/ par_apply_edits_read(r)
        \/ par_apply_edits_write(r)
        \/ par_rename_function_read(r)
        \/ par_rename_function_write(r)

SpecParallel == InitParallel /\ [][NextParallel]_vars

(***************************************************************************)
(* SpecCursor: the span resolver's cursor_to_offset on any cursor.         *)
(***************************************************************************)
\* Cursor {line, column}
Cursors == [line : 0..MaxLine, column : 0..MaxColumn]

\* utils.rs: the body is `0 as u32`, whatever the cursor
cursor_to_offset ==
    /\ pc = "resolve"
    /\ \E cursor \in Cursors :
          trace' = Append(trace, Entry("cursor_to_offset", "Ok", cursor, 0,
                                       FALSE))
    /\ pc' = "resolved"
    /\ UNCHANGED <<fs, input_path, output_path, callee_name, text_edit,
                   maybe_snippet_edit, faults, src0, runs, walk>>

InitCursor ==
    /\ input_path = "in"
    /\ output_path = "out"
    /\ src0 = NoFile
    /\ fs = [p \in Paths |-> NoFile]
    /\ callee_name = <<>>
    /\ text_edit = None
    /\ maybe_snippet_edit = None
    /\ pc = "resolve"
    /\ trace = <<>>
    /\ faults = 0
    /\ runs = <<>>
    /\ walk = <<>>

SpecCursor == InitCursor /\ [][cursor_to_offset]_vars

(***************************************************************************)
(* SpecManifest: get_manifest_dir on any starting path of any directory    *)
(* tree.  A path is the sequence of its components below the filesystem    *)
(* root, which is the empty sequence; walk.manifests is the set of         *)
(* directories that hold a Cargo.toml, and walk.kind says what the         *)
(* starting path is: a file, a directory or nothing.                       *)
(***************************************************************************)
DirNames == {"project", "src"}

\* Path::parent is None for the root
has_parent(dir) == dir # <<>>

\* Path::parent of a directory that has one
parent(dir) == SubSeq(dir, 1, Len(dir) - 1)

\* path and the directories above it, up to the root
Ancestors(path) == {SubSeq(path, 1, k) : k \in 0..Len(path)}

\* fs::metadata(dir.join("Cargo.toml")).is_ok()
HasManifest(dir) == dir \in walk.manifests

\* The return of get_manifest_dir
ManifestReturn(res, dir) ==
    /\ pc' = "returned"
    /\ trace' = Append(trace,
           Entry("get_manifest_dir", res, walk.path, dir, FALSE))
    /\ UNCHANGED walk

ManifestUnchanged ==
    UNCHANGED <<fs, input_path, output_path, callee_name, text_edit,
                maybe_snippet_edit, faults, src0, runs>>

\* The choice of current_dir and the check before the loop
get_manifest_dir_enter ==
    /\ pc = "get_manifest_dir"
    /\ LET current_dir ==
               IF walk.kind = "file" /\ has_parent(walk.path)
               THEN parent(walk.path) ELSE walk.path
       IN  IF current_dir \in walk.manifests
           THEN ManifestReturn("Ok", current_dir)
           ELSE /\ pc' = "while"
                /\ walk' = [walk EXCEPT !.current_dir = current_dir]
                /\ UNCHANGED trace
    /\ ManifestUnchanged

\* One test of `while let Some(parent) = current_dir.parent()` and the body
\* of the loop, or the Err after it
get_manifest_dir_while ==
    /\ pc = "while"
    /\ IF ~has_parent(walk.current_dir)
       THEN ManifestReturn("InvalidManifest", <<>>)
       ELSE IF HasManifest(walk.current_dir)
            THEN ManifestReturn("Ok", walk.current_dir)
            ELSE /\ walk' = [walk EXCEPT
                                 !.current_dir = parent(walk.current_dir)]
                 /\ UNCHANGED <<pc, trace>>
    /\ ManifestUnchanged

get_manifest_dir == get_manifest_dir_enter \/ get_manifest_dir_while

\* A file is not the root and holds no Cargo.toml; nothing lies below a path
\* at which there is nothing.
InitManifest ==
    /\ input_path = "in"
    /\ output_path = "out"
    /\ src0 = NoFile
    /\ fs = [p \in Paths |-> NoFile]
    /\ callee_name = <<>>
    /\ text_edit = None
    /\ maybe_snippet_edit = None
    /\ pc = "get_manifest_dir"
    /\ trace = <<>>
    /\ faults = 0
    /\ runs = <<>>
    /\ \E path \in SeqsUpTo(DirNames, MaxDepth) :
         \E kind \in {"file", "dir", "missing"} :
         \E manifests \in SUBSET Ancestors(path) :
            /\ kind # "dir" => path # <<>> /\ path \notin manifests
            /\ walk = [path |-> path, kind |-> kind,
                       manifests |-> manifests, current_dir |-> path]

SpecManifest == InitManifest /\ [][get_manifest_dir]_vars

(***************************************************************************)
(* Claims about the fixups, checked under SpecFixup.                       *)
(***************************************************************************)
\* Calls i and i+1 of the trace are two runs of `op` in succession, neither
\* with a failed write.
TwiceInSuccession(op, i) ==
    /\ i \in 1..(Len(trace) - 1)
    /\ trace[i].op = op /\ trace[i + 1].op = op
    /\ ~trace[i].io /\ ~trace[i + 1].io

\* C1: import fixup is idempotent: running fixup_controlflow twice in
\* succession leaves the same text as running it once.
C1_ControlflowIdempotent ==
    \A i \in 1..Len(trace) :
        TwiceInSuccession("fixup_controlflow", i)
            => trace[i + 1].after = trace[i].after

\* C2: return-type fixup is idempotent on a text with at least two
\* occurrences of callee_name: the second run removes nothing further.
C2_BlanktypeIdempotent ==
    \A i \in 1..Len(trace) :
        /\ TwiceInSuccession("fixup_blanktype", i)
        /\ Len(match_indices(trace[i].before, callee_name)) >= 2
        => trace[i + 1].after = trace[i].after

\* C3: statement-terminator fixup is idempotent: running
\* fixup_double_semicolon twice leaves the same text as running it once.
C3_DoubleSemicolonIdempotent ==
    \A i \in 1..Len(trace) :
        TwiceInSuccession("fixup_double_semicolon", i)
            => trace[i + 1].after = trace[i].after

\* C4: spacing fixup is idempotent: running fixup_doublespace twice leaves
\* the same text as running it once.
C4_DoublespaceIdempotent ==
    \A i \in 1..Len(trace) :
        TwiceInSuccession("fixup_doublespace", i)
            => trace[i + 1].after = trace[i].after

\* The offset of the first marker ` -> _ ` at or after the second occurrence
\* of callee_name in text, or -1.
MarkerAfterSecond(text) ==
    LET occ == match_indices(text, callee_name)
    IN  IF Len(occ) < 2 THEN -1 ELSE FindFrom(text, blank_type, occ[2])

\* C5: when the second occurrence of callee_name is followed by the marker
\* `-> _ {`, fixup_blanktype returns Ok and removes the marker, leaving
\* exactly one space before `{` and every other character unchanged.
C5_BlanktypeLeavesOneSpace ==
    \A i \in 1..Len(trace) :
        LET e == trace[i]
            m == MarkerAfterSecond(e.before)
        IN  /\ e.op = "fixup_blanktype"
            /\ ~e.io
            /\ m # -1
            /\ MatchesAt(e.before, <<"{">>, m + Len(blank_type))
            => /\ e.res = "Ok"
               /\ e.after = replace_range(e.before, m, m + Len(blank_type),
                                          <<" ">>)

\* C6: with fewer than two occurrences of callee_name, fixup_blanktype
\* returns BlankTypeFixupFailed and the file is left as it was.
C6_BlanktypeTooFewOccurrences ==
    \A i \in 1..Len(trace) :
        LET e == trace[i]
        IN  /\ e.op = "fixup_blanktype"
            /\ Len(match_indices(e.before, callee_name)) < 2
            => /\ e.res = "BlankTypeFixupFailed"
               /\ e.after = e.before
               /\ ~e.io

\* A call of fixup_blanktype on a text that holds callee_name once, followed
\* by a marker, has returned.
C6_Witness ==
    \E i \in 1..Len(trace) :
        /\ trace[i].op = "fixup_blanktype"
        /\ Len(match_indices(trace[i].before, callee_name)) = 1
        /\ Contains(trace[i].before, blank_type)
        /\ trace[i].res = "BlankTypeFixupFailed"
        /\ fs[output_path] = trace[i].before

\* The text of an import of ControlFlow, without the line ends.
import_decl == SliceTo(controlflow_import, Len(controlflow_import) - 2)

IdentChars ==
    {"a", "b", "c", "d", "e", "f", "g", "h", "i", "j", "k", "l", "m", "n",
     "o", "p", "q", "r", "s", "t", "u", "v", "w", "x", "y", "z", "_",
     "0", "1", "2", "3", "4", "5", "6", "7", "8", "9"}

IsIdentifier(name) ==
    name # <<>> /\ \A k \in 1..Len(name) : name[k] \in IdentChars

\* The occurrence of a name of length n at offset i of text is a whole
\* identifier: no identifier character stands right before or after it.
WholeIdentifierAt(text, i, n) ==
    /\ i > 0 => text[i] \notin IdentChars
    /\ i + n < Len(text) => text[i + n + 1] \notin IdentChars

\* `after` is `before` with the occurrences of fun_name, at the offsets occ,
\* each replaced by callee_name and every other character kept in place.
EachOccurrenceReplaced(before, after, occ) ==
    LET d == Len(callee_name) - Len(fun_name)
        InOcc(j) == \E k \in 1..Len(occ) : occ[k] <= j /\ j < occ[k] + Len(fun_name)
        Shift(j) == d * Cardinality({k \in 1..Len(occ) : occ[k] < j})
    IN  /\ Len(after) = Len(before) + d * Len(occ)
        /\ \A k \in 1..Len(occ) :
               MatchesAt(after, callee_name, occ[k] + d * (k - 1))
        /\ \A j \in 0..(Len(before) - 1) :
               ~InOcc(j) => after[j + Shift(j) + 1] = before[j + 1]

\* C8 as claimed: after rename_function(path, "fun_name", callee_name), for
\* every text and every callee_name, every occurrence of fun_name has been
\* replaced by callee_name and the text contains no fun_name.
C8_NoPlaceholderLeft ==
    \A i \in 1..Len(trace) :
        LET e == trace[i]
        IN  e.op = "rename_function" /\ ~e.io
            => /\ EachOccurrenceReplaced(e.before, e.after,
                                         match_indices(e.before, fun_name))
               /\ ~Contains(e.after, fun_name)

\* C8 as amended: every occurrence of fun_name has been replaced by
\* callee_name; the text contains no fun_name when callee_name is an
\* identifier that does not contain fun_name and every occurrence of
\* fun_name in the text was a whole identifier.
C8_RenameResult ==
    \A i \in 1..Len(trace) :
        LET e == trace[i]
            occ == match_indices(e.before, fun_name)
        IN  e.op = "rename_function" /\ ~e.io
            => /\ EachOccurrenceReplaced(e.before, e.after, occ)
               /\ (/\ IsIdentifier(callee_name)
                   /\ ~Contains(callee_name, fun_name)
                   /\ \A k \in 1..Len(occ) :
                          WholeIdentifierAt(e.before, occ[k], Len(fun_name)))
                  => ~Contains(e.after, fun_name)

\* rename_function has renamed two whole-identifier occurrences of fun_name.
C8_Witness ==
    \E i \in 1..Len(trace) :
        LET e == trace[i]
            occ == match_indices(e.before, fun_name)
        IN  /\ e.op = "rename_function" /\ e.res = "Ok"
            /\ Len(occ) = 2
            /\ \A k \in 1..Len(occ) :
                   WholeIdentifierAt(e.before, occ[k], Len(fun_name))
            /\ IsIdentifier(callee_name)
            /\ ~Contains(callee_name, fun_name)
            /\ ~Contains(e.after, fun_name)
            /\ fs[output_path] = e.after

(***************************************************************************)
(* Claims about a whole run, checked under Spec.                           *)
(***************************************************************************)
\* The run went through the copy, the edits, the rename and the four fixups
\* in the reference order, and no call failed.
RunComplete ==
    /\ pc = "repair"
    /\ Len(FixupCalls) = Len(RefOrder)
    /\ \A i \in 1..Len(trace) : trace[i].res = "Ok"

\* C9: after a run in the reference order on a rewrite that inserts one call
\* of the placeholder and one definition `fn fun_name() -> _ {`, the output
\* has a call of callee_name and a definition named callee_name, no
\* fun_name, and no `-> _ ` marker in the definition's signature.
C9_EndToEnd ==
    /\ RunComplete
    /\ input_path # output_path
    /\ text_edit # None /\ Len(text_edit) = 2
    /\ text_edit[1].insert = Call /\ text_edit[2].insert = DefBlank
    => LET out == fs[output_path]
           header == <<"f", "n", " ">> \o callee_name \o <<"(", ")">>
       IN  /\ Contains(out, callee_name \o <<"(", ")">>)
           /\ Contains(out, header)
           /\ ~Contains(out, fun_name)
           /\ ~Contains(out, header \o blank_type)

\* C10: when output_path differs from source_path, the source file holds
\* its original content in every state of the run.
C10_SourceNeverMutated ==
    input_path # output_path => fs[input_path] = src0

\* A complete run has written an output that differs from the source.
C10_Witness ==
    /\ RunComplete
    /\ input_path # output_path
    /\ fs[output_path] # src0
    /\ fs[input_path] = src0
    /\ Len(src0) > 0

(***************************************************************************)
(* Claims about the assist selector, checked under SpecSelect.             *)
(***************************************************************************)
IsSelectCall(e) ==
    e.op \in {"filter_extract_function_assist",
              "utils::filter_extract_function_assist"}

\* C11: for every list of assists, filter_extract_function_assist returns
\* the first assist of the list labelled "Extract into function" when there
\* is one and the no-extract-function error otherwise; it never returns an
\* assist with another label, and it writes no file.
C11_AssistSelection ==
    /\ \A p \in Paths : fs[p] = NoFile
    /\ \A i \in 1..Len(trace) :
          LET e == trace[i]
              labelled == {k \in 1..Len(e.before) :
                              e.before[k].label = extract_function_label}
          IN  IsSelectCall(e) =>
                IF labelled = {}
                THEN e.res = "NoExtractFunction" /\ e.after = <<>>
                ELSE /\ e.res = "Ok"
                     /\ \E k \in labelled :
                           /\ e.after = <<e.before[k]>>
                           /\ \A j \in labelled : k <= j

(***************************************************************************)
(* Claims about the order of the stages, checked under Spec.               *)
(***************************************************************************)
\* C12: within one run the output file is first created as a copy of the
\* source, then the TextEdit is applied exactly once to that copy, then the
\* SnippetEdit (when present) to the text-edited content, then the
\* placeholder is renamed; the rename reads the edited file and the fixups
\* only run on renamed content.
C12_StageOrder ==
    \A i \in 1..Len(trace) :
        LET e == trace[i]
        IN  /\ i = 1 => e.op = "copy_file_vfs"
            /\ e.op = "copy_file_vfs" =>
                  /\ i = 1
                  /\ e.res = "Ok" /\ input_path # output_path
                        => e.after = src0
            /\ e.op = "apply_edits" =>
                  /\ i = 2
                  /\ trace[1].res = "Ok"
                  /\ e.before = trace[1].after
                  /\ e.res = "Ok" =>
                        LET edited == text_edit_apply(e.before, text_edit)
                        IN  e.after =
                              IF maybe_snippet_edit = None THEN edited
                              ELSE snippet_edit_apply(edited,
                                                      maybe_snippet_edit)
            /\ e.op = "rename_function" =>
                  /\ i = 3
                  /\ trace[2].op = "apply_edits" /\ trace[2].res = "Ok"
                  /\ e.before = trace[2].after
            /\ IsFixupCall(e) =>
                  /\ i > 3
                  /\ trace[3].op = "rename_function" /\ trace[3].res = "Ok"
                  /\ e.before = trace[i - 1].after

\* A complete run whose rewrite came with a snippet edit, on a rewrite for
\* which applying the snippet edit first gives another text.
C12_Witness ==
    /\ RunComplete
    /\ input_path # output_path
    /\ maybe_snippet_edit # None
    /\ text_edit # None /\ text_edit # <<>>
    /\ trace[2].op = "apply_edits"
    /\ trace[2].after # trace[2].before
    /\ trace[2].after
         # text_edit_apply(snippet_edit_apply(trace[2].before,
                                             maybe_snippet_edit), text_edit)

\* C13: when the copy of the source to the output fails,
\* apply_extract_function ends with an Io error result, and no text edit,
\* snippet edit or rename has been applied to the output file.
C13_CopyFailure ==
    \A i \in 1..Len(trace) :
        trace[i].op = "copy_file_vfs" /\ trace[i].io
        => /\ trace[i].res = "Io"
           /\ Len(trace) = i
           /\ fs[output_path] \in {trace[i].before, <<>>}

(***************************************************************************)
(* Claims about failing fixups, checked under SpecFixup.                   *)
(***************************************************************************)
\* C14: each fixup reports its own named failure: a failed write in the
\* import fixup yields the import-fixup error, in the return-type fixup the
\* return-type-fixup error, in the statement-terminator fixup a terminator
\* error; no fixup returns the error that names another fixup.
C14_OwnNamedFailure ==
    \A i \in 1..Len(trace) :
        LET e == trace[i]
        IN  IsFixupCall(e) =>
              /\ e.res = "ControlFlowFixupFailed" => e.op = "fixup_controlflow"
              /\ e.res = "BlankTypeFixupFailed" => e.op = "fixup_blanktype"
              /\ e.io /\ e.op = "fixup_controlflow"
                    => e.res = "ControlFlowFixupFailed"
              /\ e.io /\ e.op = "fixup_blanktype"
                    => e.res = "BlankTypeFixupFailed"
              /\ e.io => e.res # "Ok"

\* The text a fixup leaves when its IO succeeds
FixupText(op, text) ==
    CASE op = "fixup_controlflow" -> ControlflowOutcome(text).text
      [] op = "fixup_blanktype" -> BlanktypeOutcome(text, callee_name).text
      [] op = "fixup_double_semicolon" -> DoubleSemicolonOutcome(text).text
      [] op = "fixup_doublespace" -> DoublespaceOutcome(text).text

\* C15: whenever a fixup returns an error the output file holds the text
\* left by the last successful stage, and a fixup run after it gives the
\* result it gives on that text alone.
C15_FailedFixupKeepsText ==
    \A i \in 1..Len(trace) :
        LET e == trace[i]
        IN  IsFixupCall(e) /\ e.res # "Ok" =>
              /\ e.after = e.before
              /\ i < Len(trace) /\ IsFixupCall(trace[i + 1])
                    => /\ trace[i + 1].before = e.before
                       /\ ~trace[i + 1].io
                             => trace[i + 1].after
                                  = FixupText(trace[i + 1].op, e.before)

(***************************************************************************)
(* Claims about the order of the fixups, checked under SpecCommute.        *)
(***************************************************************************)
\* The text the fixups leave when run in the reference order on text
RECURSIVE RefText(_, _)
RefText(text, k) ==
    IF k > Len(RefOrder) THEN text
    ELSE RefText(FixupText(RefOrder[k], text), k + 1)

\* Each fixup has run once and no write failed
AllRunOnce ==
    /\ Len(trace) = Len(RefOrder)
    /\ \A i \in 1..Len(trace) : IsFixupCall(trace[i]) /\ ~trace[i].io

\* C16: on each test input, running the four fixups (callee name
\* `extracted`) in any order leaves the text that the reference order
\* import, return-type, terminator, spacing leaves.
C16_FixupsCommute ==
    AllRunOnce => fs[output_path] = RefText(trace[1].before, 1)

(***************************************************************************)
(* Claims about parallel requests, checked under SpecParallel.             *)
(***************************************************************************)
\* The text request r's run leaves in its output file when executed alone
AloneText(r) ==
    RenamedText(EditedText(src0, text_edit, maybe_snippet_edit),
                fun_name, runs[r].callee_name)

\* C17: for two runs of apply_extract_function on the same source and
\* assist with different output paths, every interleaving of their file
\* operations leaves each output file with the text its run produces alone
\* and leaves the source unchanged.
C17_ParallelRunsIndependent ==
    runs[1].output_path # runs[2].output_path
    => /\ fs[input_path] = src0
       /\ \A r \in Runs :
             runs[r].pc = "done" => fs[runs[r].output_path] = AloneText(r)

\* Both runs are done, on different output paths, with different outputs
\* that both differ from the source.
C17_Witness ==
    /\ runs[1].output_path # runs[2].output_path
    /\ \A r \in Runs : runs[r].pc = "done"
    /\ fs[runs[1].output_path] # fs[runs[2].output_path]
    /\ \A r \in Runs : fs[runs[r].output_path] # src0
    /\ fs[input_path] = src0

(***************************************************************************)
(* Claims about the span resolver, checked under SpecCursor.               *)
(***************************************************************************)
\* C18: resolving a cursor whose line is 0 yields the ZeroLineIndex error,
\* whatever the column, and never a byte offset.
C18_ZeroLineRejected ==
    \A i \in 1..Len(trace) :
        trace[i].op = "cursor_to_offset" /\ trace[i].before.line = 0
        => trace[i].res = "ZeroLineIndex"

(***************************************************************************)
(* Claims about the results of the terminator and spacing fixups, checked  *)
(* under SpecFixup.                                                        *)
(***************************************************************************)
\* `after` is `before` with the occurrences of pat at the offsets occ each
\* replaced by `to`, and every other character kept, in order.
EachReplaced(before, after, occ, pat, to) ==
    LET d == Len(to) - Len(pat)
        InOcc(j) == \E k \in 1..Len(occ) : occ[k] <= j /\ j < occ[k] + Len(pat)
        Shift(j) == d * Cardinality({k \in 1..Len(occ) : occ[k] < j})
    IN  /\ Len(after) = Len(before) + d * Len(occ)
        /\ \A k \in 1..Len(occ) : MatchesAt(after, to, occ[k] + d * (k - 1))
        /\ \A j \in 0..(Len(before) - 1) :
               ~InOcc(j) => after[j + Shift(j) + 1] = before[j + 1]

\* The doubled patterns of a text, read from its start: every occurrence of
\* pat that does not overlap one before it is in occ, and nothing else.
DoubledIn(text, pat, occ) ==
    /\ \A k \in 1..Len(occ) : MatchesAt(text, pat, occ[k])
    /\ \A k \in 1..(Len(occ) - 1) : occ[k] + Len(pat) <= occ[k + 1]
    /\ \A j \in 0..(Len(text) - Len(pat)) :
           MatchesAt(text, pat, j)
           => \E k \in 1..Len(occ) : occ[k] <= j /\ j < occ[k] + Len(pat)

TestTerminatorFixed ==
    <<"l", "e", "t", " ", "x", " ", "=", " ", "1", ";", " ", "l", "e",
      "t", " ", "y", " ", "=", " ", "2", ";">>

\* C19: for every file text fixup_double_semicolon returns Ok and leaves the
\* text with every doubled terminator `;;` replaced by `;` and every other
\* character unchanged in order; `let x = 1;; let y = 2;` becomes
\* `let x = 1; let y = 2;`; a text without `;;` is left as it is.  (A call
\* whose fs::write fails returns Err instead: the statement is about the
\* calls whose IO succeeds.)
C19_DoubleSemicolonResult ==
    \A i \in 1..Len(trace) :
        LET e == trace[i]
            occ == match_indices(e.before, double_semicolon)
        IN  e.op = "fixup_double_semicolon" /\ ~e.io =>
              /\ e.res = "Ok"
              /\ DoubledIn(e.before, double_semicolon, occ)
              /\ EachReplaced(e.before, e.after, occ, <<";", ";">>, <<";">>)
              /\ e.before = TestTerminator => e.after = TestTerminatorFixed
              /\ occ = <<>> => e.after = e.before

\* fixup_double_semicolon has fixed a text with two doubled terminators.
C19_Witness ==
    \E i \in 1..Len(trace) :
        /\ trace[i].op = "fixup_double_semicolon" /\ trace[i].res = "Ok"
        /\ Len(match_indices(trace[i].before, double_semicolon)) = 2
        /\ trace[i].after # trace[i].before
        /\ fs[output_path] = trace[i].after

TestSpacingFixed ==
    <<"f", "o", "o", "(", "a", ",", " ", "b", ")", " ", "b", "a", "r",
      "(", ")">>

\* C20: for every file text fixup_doublespace returns Ok and leaves the text
\* with every `)` followed by two spaces replaced by `)` followed by one
\* space and every other character unchanged in order; `foo(a, b)  bar()`
\* becomes `foo(a, b) bar()`; a text without `)` followed by two spaces is
\* left as it is.  (A call whose fs::write fails returns Err instead.)
C20_DoublespaceResult ==
    \A i \in 1..Len(trace) :
        LET e == trace[i]
            occ == match_indices(e.before, double_space)
        IN  e.op = "fixup_doublespace" /\ ~e.io =>
              /\ e.res = "Ok"
              /\ DoubledIn(e.before, double_space, occ)
              /\ EachReplaced(e.before, e.after, occ, <<")", " ", " ">>,
                              <<")", " ">>)
              /\ e.before = TestSpacing => e.after = TestSpacingFixed
              /\ occ = <<>> => e.after = e.before

\* fixup_doublespace has fixed a text with two `)` followed by two spaces.
C20_Witness ==
    \E i \in 1..Len(trace) :
        /\ trace[i].op = "fixup_doublespace" /\ trace[i].res = "Ok"
        /\ Len(match_indices(trace[i].before, double_space)) = 2
        /\ fs[output_path] = trace[i].after

(***************************************************************************)
(* Claims about get_manifest_dir, checked under SpecManifest.              *)
(***************************************************************************)
\* The directories the lookup is to try: the file's parent, or the path
\* itself when it is not a file, and every directory above it up to the
\* filesystem root.
LookupDirs ==
    Ancestors(IF walk.kind = "file" THEN parent(walk.path) ELSE walk.path)

\* C21: get_manifest_dir returns Ok(d) for the nearest directory d, from the
\* file's parent (or the path itself when it is not a file) up to the
\* filesystem root, that contains a Cargo.toml, and InvalidManifest exactly
\* when none of those directories contains one.
C21_ManifestDirLookup ==
    \A i \in 1..Len(trace) :
        LET e == trace[i]
            found == LookupDirs \cap walk.manifests
        IN  e.op = "get_manifest_dir" =>
              IF found = {}
              THEN e.res = "InvalidManifest"
              ELSE /\ e.res = "Ok"
                   /\ e.after \in found
                   /\ \A d \in found : Len(d) <= Len(e.after)

(***************************************************************************)
(* Claims about the reach of the return-type fixup, checked under          *)
(* SpecFixup.                                                              *)
(***************************************************************************)
\* The offset at which the line holding offset pos of text ends
LineEnd(text, pos) ==
    LET n == FindFrom(text, <<"\n">>, pos)
    IN  IF n = -1 THEN Len(text) ELSE n

\* The offset of the first marker that lies after the second occurrence of
\* callee_name on the line of that occurrence, or -1
MarkerOnLine(text) ==
    LET occ == match_indices(text, callee_name)
        m == MarkerAfterSecond(text)
    IN  IF m # -1 /\ m + Len(blank_type) <= LineEnd(text, occ[2])
        THEN m ELSE -1

\* C22: fixup_blanktype only removes a `-> _ ` marker that lies on the line
\* of the second occurrence of callee_name; when that line has no marker,
\* the markers on later lines are left untouched and the file is unchanged.
C22_BlanktypeConfinedToLine ==
    \A i \in 1..Len(trace) :
        LET e == trace[i]
        IN  /\ e.op = "fixup_blanktype" /\ ~e.io
            /\ Len(match_indices(e.before, callee_name)) >= 2
            => LET m == MarkerOnLine(e.before)
               IN  IF m = -1 THEN e.after = e.before
                   ELSE e.after = replace_range(e.before, m,
                                      m + blank_type_removed,
                                      blank_type_replacement)

====
